---- MODULE Spec2Model ----
(***************************************************************************)
(* State-machine model of the identity-verification backend: the SQLite    *)
(* data layer (database.js: verification_sessions and audit_log) and the   *)
(* express handlers of server.js (POST /webhook, POST /create-session,     *)
(* GET /verification-status/:sessionId, DELETE /user-data/:userReference,  *)
(* GET /stats).                                                            *)
(* Node runs each handler to its next real await without interruption, so  *)
(* one action is one such synchronous stretch.  The identity provider is   *)
(* the environment: it issues session ids, changes a session's status,     *)
(* emits signed events and delivers each of them any number of times.      *)
(***************************************************************************)
EXTENDS Integers, Sequences, FiniteSets, TLC

(* ------------------------------ bounds --------------------------------- *)
\* requests the server takes (deliveries, creations, status queries, deletions,
\* statistics)
MaxRequests == 3

(* ------------------------- values and domains -------------------------- *)
\* SQL NULL / JavaScript null in a TEXT column or a metadata field
NULL == "NULL"
\* SQL NULL in a timestamp column (verified_at TEXT, nullable)
NoTime == 0

\* ids the provider assigns to verification sessions, in order of creation
SessionIdTable == <<"vs_1", "vs_2">>
\* ids the provider assigns to events, in order of emission
EventIdTable == <<"evt_1">>
\* userReference values a client may send; NULL is a body without the field
Users == {"u1"}
\* the values of the clock, and `user_${Date.now()}` for each of them
Times == {1, 2}
DefaultUserTable == <<"user_1", "user_2">>

\* the four mapped event types and one the switch does not know
EvVerified == "identity.verification_session.verified"
EvRequiresInput == "identity.verification_session.requires_input"
EvProcessing == "identity.verification_session.processing"
EvCanceled == "identity.verification_session.canceled"
EvOther == "identity.verification_session.redacted"
MappedTypes == {EvVerified, EvRequiresInput, EvProcessing, EvCanceled}
EventTypes == MappedTypes \cup {EvOther}

\* statuses the provider reports for a session
ProviderStatuses == {"requires_input", "processing", "verified", "canceled"}
\* session.last_error?.code of an event object
ErrorCodes == {"document_expired"}

\* the status each mapped event type stands for at the provider
StatusOfType(type) ==
  CASE type = EvVerified -> "verified"
    [] type = EvRequiresInput -> "requires_input"
    [] type = EvProcessing -> "processing"
    [] type = EvCanceled -> "canceled"
    [] OTHER -> NULL

SessionIds == {SessionIdTable[i] : i \in 1..Len(SessionIdTable)}
EventIds == {EventIdTable[i] : i \in 1..Len(EventIdTable)}

(* --------------------------- the data layer ---------------------------- *)
\* a database is [s |-> verification_sessions, a |-> audit_log]; the sessions
\* table is a function from session_id (UNIQUE) to its row

AuditRow(eventType, sessionId, info, eventId, user) ==
  [eventType |-> eventType, sessionId |-> sessionId, info |-> info,
   eventId |-> eventId, user |-> user]

\* an insert that keeps one row per session: it replaces the session's last row
logAuditEventReplacing(db, row) ==
  IF db.a # << >> /\ db.a[Len(db.a)].sessionId = row.sessionId
  THEN [db EXCEPT !.a = Append(SubSeq(@, 1, Len(@) - 1), row)]
  ELSE [db EXCEPT !.a = Append(@, row)]

\* INSERT INTO audit_log: the row goes to the end of the table
logAuditEvent(db, row) == [db EXCEPT !.a = Append(@, row)]

\* a record that starts in the status the provider reports for a new session
createVerificationRecordPending(db, sessionId, userReference, verificationType, t) ==
  LET row == [user |-> userReference, status |-> "requires_input",
              vtype |-> verificationType, createdAt |-> t, updatedAt |-> t,
              verifiedAt |-> NoTime, lastEventId |-> NULL]
      ins == [db EXCEPT !.s = [x \in DOMAIN db.s \cup {sessionId} |->
                                 IF x = sessionId THEN row ELSE db.s[x]]]
  IN logAuditEvent(ins, AuditRow("session_created", sessionId, verificationType,
                                 NULL, userReference))

\* INSERT INTO verification_sessions ... 'created', then the audit row
createVerificationRecord(db, sessionId, userReference, verificationType, t) ==
  LET row == [user |-> userReference, status |-> "created",
              vtype |-> verificationType, createdAt |-> t, updatedAt |-> t,
              verifiedAt |-> NoTime, lastEventId |-> NULL]
      ins == [db EXCEPT !.s = [x \in DOMAIN db.s \cup {sessionId} |->
                                 IF x = sessionId THEN row ELSE db.s[x]]]
  IN logAuditEvent(ins, AuditRow("session_created", sessionId, verificationType,
                                 NULL, userReference))

\* an update that resets verified_at on every status other than verified
UpdateRowsClearing(s, sessionId, status, eventId, t) ==
  [x \in DOMAIN s |->
     IF x = sessionId
     THEN [s[x] EXCEPT !.status = status,
                       !.updatedAt = t,
                       !.verifiedAt = IF status = "verified" THEN t ELSE NoTime,
                       !.lastEventId = eventId]
     ELSE s[x]]

\* an update that stamps verified_at on every status
UpdateRowsStamping(s, sessionId, status, eventId, t) ==
  [x \in DOMAIN s |->
     IF x = sessionId
     THEN [s[x] EXCEPT !.status = status,
                       !.updatedAt = t,
                       !.verifiedAt = t,
                       !.lastEventId = eventId]
     ELSE s[x]]

\* an update that leaves a verified session as it is
UpdateRowsGuarded(s, sessionId, status, eventId, t) ==
  [x \in DOMAIN s |->
     IF x = sessionId /\ s[x].status # "verified"
     THEN [s[x] EXCEPT !.status = status,
                       !.updatedAt = t,
                       !.verifiedAt = IF status = "verified" THEN t ELSE @,
                       !.lastEventId = eventId]
     ELSE s[x]]

\* the UPDATE ... WHERE session_id = ? of updateVerificationStatus
UpdateRows(s, sessionId, status, eventId, t) ==
  [x \in DOMAIN s |->
     IF x = sessionId
     THEN [s[x] EXCEPT !.status = status,
                       !.updatedAt = t,
                       !.verifiedAt = IF status = "verified" THEN t ELSE @,
                       !.lastEventId = eventId]
     ELSE s[x]]

\* an update that is skipped when its event id is already on a row
updateVerificationStatusOnce(db, sessionId, status, eventId, t) ==
  IF eventId # NULL /\ \E x \in DOMAIN db.s : db.s[x].lastEventId = eventId
  THEN db
  ELSE LET upd == [db EXCEPT !.s = UpdateRows(db.s, sessionId, status, eventId, t)]
       IN logAuditEvent(upd, AuditRow("status_updated", sessionId, status, eventId, NULL))

\* updateVerificationStatus: the UPDATE, then the audit row
updateVerificationStatus(db, sessionId, status, eventId, t) ==
  LET upd == [db EXCEPT !.s = UpdateRows(db.s, sessionId, status, eventId, t)]
  IN logAuditEvent(upd, AuditRow("status_updated", sessionId, status, eventId, NULL))

\* a lookup that takes any session id for a stored one
HasSessionLoose(db, sessionId) == sessionId # NULL

\* SELECT ... WHERE session_id = ? : the row, or NULL for undefined
HasSession(db, sessionId) == sessionId \in DOMAIN db.s

\* COUNT(*) ... WHERE last_event_id = ? is positive; NULL = NULL is not true in SQL
isEventProcessed(db, eventId) ==
  /\ eventId # NULL
  /\ \E x \in DOMAIN db.s : db.s[x].lastEventId = eventId

OwnedBy(s, userReference) == {x \in DOMAIN s : s[x].user = userReference}

RECURSIVE DropSessions(_, _)
\* the audit rows a DELETE ... WHERE session_id IN (owned) keeps, in order;
\* a row whose session_id is NULL matches no IN list
DropSessions(rows, owned) ==
  IF rows = << >> THEN << >>
  ELSE IF Head(rows).sessionId \in owned
       THEN DropSessions(Tail(rows), owned)
       ELSE <<Head(rows)>> \o DropSessions(Tail(rows), owned)

\* a delete that also removes the rows without a session id
deleteAuditAndGlobal(db, userReference) ==
  [db EXCEPT !.a = DropSessions(@, OwnedBy(db.s, userReference) \cup {NULL})]

\* DELETE FROM audit_log WHERE session_id IN (SELECT session_id ... WHERE user_reference = ?)
deleteAudit(db, userReference) ==
  [db EXCEPT !.a = DropSessions(@, OwnedBy(db.s, userReference))]

\* DELETE FROM verification_sessions WHERE user_reference = ?
deleteVerifications(db, userReference) ==
  [db EXCEPT !.s = [x \in DOMAIN db.s \ OwnedBy(db.s, userReference) |-> db.s[x]]]

\* a transaction wrapper that keeps what ran before the throw
NotRolledBack(db, partial) == partial

\* what the store holds when the transaction function throws in its
\* statement number failAt (1: deleteAudit, 2: deleteVerifications): the
\* statements before it have run, and better-sqlite3 rolls them back
RolledBack(db, partial) == db

\* the two deletes in the other order: the sub-select of deleteAudit then
\* finds no session of the user
TransactionSessionsFirst(db, userReference, failAt) ==
  LET afterSessions == deleteVerifications(db, userReference)
      afterBoth == deleteAudit(afterSessions, userReference)
  IN CASE failAt = 0 -> afterBoth
       [] failAt = 1 -> RolledBack(db, db)
       [] OTHER -> RolledBack(db, afterSessions)

\* db.transaction(fn)(): deleteAudit, then deleteVerifications, committed
\* together when neither throws (failAt = 0)
Transaction(db, userReference, failAt) ==
  LET afterAudit == deleteAudit(db, userReference)
      afterBoth == deleteVerifications(afterAudit, userReference)
  IN CASE failAt = 0 -> afterBoth
       [] failAt = 1 -> RolledBack(db, db)
       [] OTHER -> RolledBack(db, afterAudit)

\* a deletion whose trace is keyed by one of the user's sessions and written
\* before the transaction, which then removes it
deleteUserDataKeyed(db, userReference, failAt) ==
  LET owned == OwnedBy(db.s, userReference)
      key == IF owned = {} THEN NULL ELSE CHOOSE x \in owned : TRUE
  IN IF failAt = 0
     THEN Transaction(logAuditEvent(db, AuditRow("user_data_deleted", key, NULL, NULL,
                                                  userReference)),
                      userReference, failAt)
     ELSE Transaction(db, userReference, failAt)

\* deleteUserData: the transaction, then the user_data_deleted entry; a
\* throwing transaction propagates before anything is logged
deleteUserData(db, userReference, failAt) ==
  IF failAt = 0
  THEN logAuditEvent(Transaction(db, userReference, failAt),
                     AuditRow("user_data_deleted", NULL, NULL, NULL, userReference))
  ELSE Transaction(db, userReference, failAt)

(* ------------------------- the webhook verifier ------------------------ *)
\* a request body: an event ("event"), bytes that are not JSON ("bad_json"),
\* or JSON without data.object ("no_object")
EventBody(id, type, objectId, lastErr) ==
  [shape |-> "event", id |-> id, type |-> type, objectId |-> objectId,
   lastErr |-> lastErr]
BadJson == [shape |-> "bad_json", id |-> NULL, type |-> NULL, objectId |-> NULL,
            lastErr |-> NULL]
NoObject == [shape |-> "no_object", id |-> NULL, type |-> NULL, objectId |-> NULL,
             lastErr |-> NULL]

\* process.env.STRIPE_WEBHOOK_SECRET when it is set, and a key that is not it
SecretValue == "whsec"
WrongKey == "wrong_key"

\* the stripe-signature header: a keyed hash of the exact body bytes
Hmac(key, body) == [key |-> key, body |-> body]

\* a parse that lets JSON without data.object through
ParseEventLenient(body) ==
  [ok |-> body.shape # "bad_json", errType |-> NULL, event |-> body]

\* JSON.parse(body) followed by the read of event.data.object.id (line 108):
\* either throws an error that has no .type
ParseEvent(body) ==
  [ok |-> body.shape = "event", errType |-> NULL, event |-> body]

\* a verification that checks the key of the signature and not the bytes
constructEventKeyOnly(body, sig, secret) ==
  IF sig.key = secret
  THEN ParseEvent(body)
  ELSE [ok |-> FALSE, errType |-> "StripeSignatureVerificationError", event |-> body]

\* stripe.webhooks.constructEvent(body, sig, secret)
constructEvent(body, sig, secret) ==
  IF sig = Hmac(secret, body)
  THEN ParseEvent(body)
  ELSE [ok |-> FALSE, errType |-> "StripeSignatureVerificationError", event |-> body]

\* lines 97-105: without a secret the body is parsed unverified
VerifyWebhook(body, sig, secret) ==
  IF secret = NULL THEN ParseEvent(body) ELSE constructEvent(body, sig, secret)

\* session.last_error?.code || null, the third argument of the update in
\* handleVerificationVerified and handleVerificationRequiresInput
LastErrorCode(event) == event.lastErr

\* a dispatcher whose switch has a default branch that cancels the session
DispatchEventDefaulting(db, event, t) ==
  CASE event.type = EvVerified ->
         updateVerificationStatus(db, event.objectId, "verified", LastErrorCode(event), t)
    [] event.type = EvRequiresInput ->
         updateVerificationStatus(db, event.objectId, "requires_input", LastErrorCode(event), t)
    [] event.type = EvProcessing ->
         updateVerificationStatus(db, event.objectId, "processing", NULL, t)
    [] OTHER ->
         updateVerificationStatus(db, event.objectId, "canceled", NULL, t)

\* the switch on event.type and the four handle* functions
DispatchEvent(db, event, t) ==
  CASE event.type = EvVerified ->
         updateVerificationStatus(db, event.objectId, "verified", LastErrorCode(event), t)
    [] event.type = EvRequiresInput ->
         updateVerificationStatus(db, event.objectId, "requires_input", LastErrorCode(event), t)
    [] event.type = EvProcessing ->
         updateVerificationStatus(db, event.objectId, "processing", NULL, t)
    [] event.type = EvCanceled ->
         updateVerificationStatus(db, event.objectId, "canceled", NULL, t)
    [] OTHER -> db

\* what a handler step answered (op, code, ack, status, createdAt,
\* verifiedAt) and what the request was (the rest)
Outcome(op, code, ack) ==
  [op |-> op, code |-> code, ack |-> ack, status |-> NULL, createdAt |-> NoTime,
   verifiedAt |-> NoTime, sid |-> NULL, evt |-> NULL, etype |-> NULL,
   user |-> NULL, applied |-> FALSE, owned |-> {}, shape |-> NULL,
   sigOk |-> FALSE, overlap |-> FALSE, fault |-> 0, stats |-> NULL]

\* an acknowledgment that turns an update of no row into an error
AcknowledgeStrict(db, event) ==
  IF event.type \in MappedTypes /\ ~HasSession(db, event.objectId)
  THEN Outcome("webhook", 404, NULL)
  ELSE [Outcome("webhook", 200, "received") EXCEPT
          !.applied = event.type \in MappedTypes]

\* res.json({ received: true }) after the switch, whatever the update changed
Acknowledge(db, event) ==
  [Outcome("webhook", 200, "received") EXCEPT
     !.applied = event.type \in MappedTypes /\ HasSession(db, event.objectId)]

\* a handler that looks the event id up before it logs the receipt
WebhookHandlerCheckFirst(db, body, sig, secret, t) ==
  LET v == VerifyWebhook(body, sig, secret)
      event == v.event
      received == logAuditEvent(db, AuditRow("webhook_received", event.objectId,
                                            event.type, event.id, NULL))
  IN IF ~v.ok
     THEN [db |-> logAuditEvent(db, AuditRow("webhook_error", NULL, v.errType, NULL, NULL)),
           out |-> Outcome("webhook", 400, NULL)]
     ELSE IF isEventProcessed(db, event.id)
     THEN [db |-> db, out |-> Outcome("webhook", 200, "already_processed")]
     ELSE [db |-> DispatchEvent(received, event, t), out |-> Acknowledge(db, event)]

\* the POST /webhook handler: the store and the response it produces
WebhookHandler(db, body, sig, secret, t) ==
  LET v == VerifyWebhook(body, sig, secret)
      event == v.event
      received == logAuditEvent(db, AuditRow("webhook_received", event.objectId,
                                            event.type, event.id, NULL))
  IN IF ~v.ok
     THEN [db |-> logAuditEvent(db, AuditRow("webhook_error", NULL, v.errType, NULL, NULL)),
           out |-> Outcome("webhook", 400, NULL)]
     ELSE IF isEventProcessed(received, event.id)
     THEN [db |-> received, out |-> Outcome("webhook", 200, "already_processed")]
     ELSE [db |-> DispatchEvent(received, event, t), out |-> Acknowledge(db, event)]

(* ------------------------------ the state ------------------------------ *)
VARIABLES
  sessions,    \* verification_sessions: session_id -> row
  audit,       \* audit_log: the rows in insertion order
  now,         \* datetime('now') / Date.now()
  config,      \* process.env: webhookSecret (or NULL), frontendUrl (set or not)
  provStatus,  \* the provider's sessions: provStatus[n] is the status of SessionIdTable[n]
  provEvents,  \* the events the provider has emitted: provEvents[i] has id EventIdTable[i]
  inTransit,   \* inTransit[i]: deliveries of event i received and not yet handled
  inflight,    \* per request slot: the handler suspended at an await, or idle
  served,      \* requests taken so far
  applied,     \* history: applied[id] counts the status writes the dispatcher made for event id
  last         \* the latest handler step: its response and what it was about

vars == <<sessions, audit, now, config, provStatus, provEvents, inTransit, inflight,
          served, applied, last>>

\* request slots: handlers that may be suspended at an await at the same time
Requests == {"r1"}

DB == [s |-> sessions, a |-> audit]

NoRecord == [status |-> NULL, createdAt |-> NoTime, verifiedAt |-> NoTime]
Idle == [kind |-> "idle", pc |-> NULL, user |-> NULL, sid |-> NULL, result |-> NULL,
         record |-> NoRecord, fetched |-> NULL, fetchedAt |-> 0, newer |-> NULL]

SessionIndex(sid) == CHOOSE n \in 1..Len(SessionIdTable) : SessionIdTable[n] = sid
Emitted == {provEvents[i] : i \in 1..Len(provEvents)}

Init ==
  /\ sessions = [x \in {} |-> NULL]
  /\ audit = << >>
  /\ now = 1
  /\ config \in [webhookSecret : {SecretValue, NULL}, frontendUrl : BOOLEAN]
  /\ provStatus = << >>
  /\ provEvents = << >>
  /\ inTransit = [i \in 1..Len(EventIdTable) |-> 0]
  /\ inflight = [r \in Requests |-> Idle]
  /\ served = 0
  /\ applied = [id \in EventIds |-> 0]
  /\ last = Outcome("none", 0, NULL)

\* the store after a handler step
Commit(db) ==
  /\ sessions' = db.s
  /\ audit' = db.a

\* the server takes one more request
Accept ==
  /\ served < MaxRequests
  /\ served' = served + 1

(* --------------------------- the environment --------------------------- *)
Tick ==
  /\ now + 1 \in Times
  /\ now' = now + 1
  /\ UNCHANGED <<sessions, audit, config, provStatus, provEvents, inTransit, inflight,
                 served, applied, last>>

\* the provider changes session n's status and emits the event that says so
ProviderEmit(n, type, lastErr) ==
  /\ Len(provEvents) < Len(EventIdTable)
  /\ n \in 1..Len(provStatus)
  /\ provEvents' = Append(provEvents,
       EventBody(EventIdTable[Len(provEvents) + 1], type, SessionIdTable[n], lastErr))
  /\ provStatus' = IF type \in MappedTypes
                   THEN [provStatus EXCEPT ![n] = StatusOfType(type)]
                   ELSE provStatus
  /\ UNCHANGED <<sessions, audit, now, config, inTransit, inflight, served, applied, last>>

\* the provider sends event i (again, at-least-once delivery) and the server
\* takes the request: express.raw reads its body while other requests run
ProviderDeliver(i) ==
  /\ i \in 1..Len(provEvents)
  /\ Accept
  /\ inTransit' = [inTransit EXCEPT ![i] = @ + 1]
  /\ UNCHANGED <<sessions, audit, now, config, provStatus, provEvents, inflight,
                 applied, last>>

(* ----------------------------- POST /webhook --------------------------- *)
\* a status request that has its provider answer and is about the session
\* this body updates learns of a write by an event emitted after that answer
NoteNewer(c, body, wrote) ==
  IF /\ c.kind = "status"
     /\ c.pc = "answered"
     /\ wrote
     /\ c.sid = body.objectId
     /\ \E i \in (c.fetchedAt + 1)..Len(provEvents) : provEvents[i] = body
  THEN [c EXCEPT !.newer = StatusOfType(body.type)]
  ELSE c

\* the handler runs from the verification to the response without giving
\* way: handle* are async functions with no await of their own, so the
\* await on them resumes before any other request is looked at
Webhook(body, sig, overlap) ==
  LET h == WebhookHandler(DB, body, sig, config.webhookSecret, now)
  IN /\ Commit(h.db)
     /\ last' = [h.out EXCEPT !.sid = body.objectId, !.evt = body.id,
                              !.etype = body.type, !.shape = body.shape,
                              !.sigOk = (sig = Hmac(SecretValue, body)),
                              !.overlap = overlap]
     /\ applied' = IF h.out.applied /\ body.id \in EventIds
                   THEN [applied EXCEPT ![body.id] = @ + 1]
                   ELSE applied
     /\ inflight' = [r \in Requests |-> NoteNewer(inflight[r], body, h.out.applied)]
     /\ UNCHANGED <<now, config, provStatus, provEvents>>

\* a delivery by the provider: event i, signed over its bytes with the secret
WebhookDelivery(i) ==
  /\ i \in 1..Len(provEvents)
  /\ inTransit[i] > 0
  /\ inTransit' = [inTransit EXCEPT ![i] = @ - 1]
  /\ Webhook(provEvents[i], Hmac(SecretValue, provEvents[i]), inTransit[i] > 1)
  /\ UNCHANGED served

\* bodies anyone else can post: broken ones, an emitted event, an emitted
\* event with its type changed, and an event made up from nothing
ForgedBodies ==
  {BadJson, NoObject}
    \cup Emitted
    \cup {[e EXCEPT !.type = EvVerified] : e \in Emitted}
    \cup {EventBody("manual_sync", EvVerified, sid, NULL) : sid \in SessionIds}

\* signatures anyone else can attach: one made without the secret, or one
\* copied from a delivery of an emitted event
ForgedSigs(body) == {Hmac(WrongKey, body)} \cup {Hmac(SecretValue, e) : e \in Emitted}

\* a request that is not a delivery by the provider
WebhookForged(body, sig) ==
  /\ sig # Hmac(SecretValue, body)
  /\ Accept
  /\ Webhook(body, sig, FALSE)
  /\ UNCHANGED inTransit

(* -------------------------- POST /create-session ----------------------- *)
\* req.body.userReference || `user_${Date.now()}`
UserReferenceOf(given, t) == IF given = NULL THEN DefaultUserTable[t] ELSE given

\* up to the await: the configuration check, then the provider is called; it
\* creates the session under the next id, or the call fails (result NULL)
CreateSessionCall(r, given, succeeds) ==
  /\ inflight[r].kind = "idle"
  /\ Accept
  /\ IF ~config.frontendUrl
     THEN /\ last' = Outcome("create", 500, NULL)
          /\ UNCHANGED <<inflight, provStatus>>
     ELSE /\ succeeds => Len(provStatus) < Len(SessionIdTable)
          /\ provStatus' = IF succeeds THEN Append(provStatus, "requires_input")
                           ELSE provStatus
          /\ inflight' = [inflight EXCEPT ![r] =
               [Idle EXCEPT !.kind = "create", !.pc = "answered",
                            !.user = UserReferenceOf(given, now),
                            !.result = IF succeeds
                                       THEN SessionIdTable[Len(provStatus) + 1]
                                       ELSE NULL]]
          /\ last' = [Outcome("create_call", 0, NULL) EXCEPT
                        !.user = UserReferenceOf(given, now)]
  /\ UNCHANGED <<sessions, audit, now, config, provEvents, inTransit, applied>>

\* a catch block that answers without logging
CreationFailedSilent(db) == db

\* the catch block of the handler: the failure goes to the audit log
CreationFailed(db) ==
  logAuditEvent(db, AuditRow("session_creation_failed", NULL, "error", NULL, NULL))

\* after the await: the record and the two audit entries, or the catch block
CreateSessionReturn(r) ==
  LET c == inflight[r]
      stored == createVerificationRecord(DB, c.result, c.user, "document", now)
      logged == logAuditEvent(stored,
                  AuditRow("session_created", c.result, "ip", NULL, c.user))
      failed == CreationFailed(DB)
  IN /\ c.kind = "create"
     /\ IF c.result # NULL
        THEN /\ Commit(logged)
             /\ last' = [Outcome("create", 200, "url") EXCEPT
                           !.sid = c.result, !.user = c.user]
        ELSE /\ Commit(failed)
             /\ last' = [Outcome("create", 500, NULL) EXCEPT !.user = c.user]
     /\ inflight' = [inflight EXCEPT ![r] = Idle]
     /\ UNCHANGED <<now, config, provStatus, provEvents, inTransit, served, applied>>

(* ------------------- GET /verification-status/:sessionId --------------- *)
\* getVerificationBySessionId: the columns of the row the handler uses
getVerificationBySessionId(db, sessionId) ==
  IF sessionId \in DOMAIN db.s
  THEN [status |-> db.s[sessionId].status, createdAt |-> db.s[sessionId].createdAt,
        verifiedAt |-> db.s[sessionId].verifiedAt]
  ELSE NoRecord

\* up to the await: the local lookup, 404 when there is no row, else the
\* request to the provider is sent
GetStatusCall(r, sid) ==
  /\ inflight[r].kind = "idle"
  /\ Accept
  /\ IF ~HasSession(DB, sid)
     THEN /\ last' = [Outcome("status", 404, NULL) EXCEPT !.sid = sid]
          /\ UNCHANGED inflight
     ELSE /\ inflight' = [inflight EXCEPT ![r] =
               [Idle EXCEPT !.kind = "status", !.pc = "sent", !.sid = sid,
                            !.record = getVerificationBySessionId(DB, sid)]]
          /\ last' = [Outcome("status_call", 0, NULL) EXCEPT !.sid = sid]
  /\ UNCHANGED <<sessions, audit, now, config, provStatus, provEvents, inTransit, applied>>

\* stripe.identity.verificationSessions.retrieve at the provider: the status
\* the session has now, or a failed call
ProviderRetrieve(r, succeeds) ==
  LET c == inflight[r]
  IN /\ c.kind = "status"
     /\ c.pc = "sent"
     /\ inflight' = [inflight EXCEPT ![r] =
          [c EXCEPT !.pc = "answered",
                    !.fetched = IF succeeds THEN provStatus[SessionIndex(c.sid)]
                                ELSE "error",
                    !.fetchedAt = Len(provEvents)]]
     /\ UNCHANGED <<sessions, audit, now, config, provStatus, provEvents, inTransit,
                    served, applied, last>>

\* after the await: the resync when the provider's status is not the one
\* read before the await, then the response
GetStatusReturn(r) ==
  LET c == inflight[r]
      synced == IF c.fetched # c.record.status
                THEN updateVerificationStatus(DB, c.sid, c.fetched, "manual_sync", now)
                ELSE DB
  IN /\ c.kind = "status"
     /\ c.pc = "answered"
     /\ IF c.fetched = "error"
        THEN /\ last' = [Outcome("status", 500, NULL) EXCEPT !.sid = c.sid]
             /\ UNCHANGED <<sessions, audit>>
        ELSE /\ Commit(synced)
             /\ last' = [Outcome("status", 200, NULL) EXCEPT
                           !.sid = c.sid, !.status = c.fetched,
                           !.createdAt = c.record.createdAt,
                           !.verifiedAt = c.record.verifiedAt,
                           !.applied = c.fetched # c.record.status
                                       /\ HasSession(DB, c.sid)]
     /\ inflight' = [inflight EXCEPT ![r] = Idle]
     /\ UNCHANGED <<now, config, provStatus, provEvents, inTransit, served, applied>>

(* ------------------- DELETE /user-data/:userReference ------------------ *)
\* the handler runs without an await; failAt > 0 is a statement of the
\* transaction throwing, which the handler's catch answers with 500
DeleteUserData(user, failAt) ==
  LET deleted == deleteUserData(DB, user, failAt)
      logged == logAuditEvent(deleted, AuditRow("gdpr_deletion", NULL, "ip", NULL, user))
  IN /\ Accept
     /\ IF failAt = 0
        THEN /\ Commit(logged)
             /\ last' = [Outcome("delete", 200, "deleted") EXCEPT
                           !.user = user, !.owned = OwnedBy(sessions, user)]
        ELSE /\ Commit(deleted)
             /\ last' = [Outcome("delete", 500, NULL) EXCEPT
                           !.user = user, !.owned = OwnedBy(sessions, user),
                           !.fault = failAt]
     /\ UNCHANGED <<now, config, provStatus, provEvents, inTransit, inflight, applied>>

(* ------------------------------ GET /stats ----------------------------- *)
CountStatus(s, statuses) == Cardinality({x \in DOMAIN s : s[x].status \in statuses})

\* statistics whose pending bucket leaves out the sessions just created
getStatisticsNoCreated(db) ==
  [total_sessions |-> Cardinality(DOMAIN db.s),
   verified |-> CountStatus(db.s, {"verified"}),
   pending |-> CountStatus(db.s, {"processing"}),
   failed |-> CountStatus(db.s, {"requires_input", "canceled"}),
   audit_events |-> Len(db.a)]

getStatistics(db) ==
  [total_sessions |-> Cardinality(DOMAIN db.s),
   verified |-> CountStatus(db.s, {"verified"}),
   pending |-> CountStatus(db.s, {"created", "processing"}),
   failed |-> CountStatus(db.s, {"requires_input", "canceled"}),
   audit_events |-> Len(db.a)]

\* the handler runs without an await and answers with the five counts
GetStatistics ==
  /\ Accept
  /\ last' = [Outcome("stats", 200, NULL) EXCEPT !.stats = getStatistics(DB)]
  /\ UNCHANGED <<sessions, audit, now, config, provStatus, provEvents, inTransit,
                 inflight, applied>>

(* --------------------------- the specification ------------------------- *)
AllUsers == Users \cup {DefaultUserTable[t] : t \in Times}

Next ==
  \/ Tick
  \/ \E n \in 1..Len(SessionIdTable), type \in EventTypes, lastErr \in ErrorCodes \cup {NULL} :
       /\ lastErr # NULL => type = EvRequiresInput
       /\ ProviderEmit(n, type, lastErr)
  \/ \E i \in 1..Len(EventIdTable) : ProviderDeliver(i)
  \/ \E i \in 1..Len(EventIdTable) : WebhookDelivery(i)
  \/ \E body \in ForgedBodies : \E sig \in ForgedSigs(body) : WebhookForged(body, sig)
  \/ \E r \in Requests, given \in Users \cup {NULL}, succeeds \in BOOLEAN :
       CreateSessionCall(r, given, succeeds)
  \/ \E r \in Requests : CreateSessionReturn(r)
  \/ \E r \in Requests, sid \in SessionIds : GetStatusCall(r, sid)
  \/ \E r \in Requests, succeeds \in BOOLEAN : ProviderRetrieve(r, succeeds)
  \/ \E r \in Requests : GetStatusReturn(r)
  \/ \E user \in AllUsers, failAt \in 0..2 : DeleteUserData(user, failAt)
  \/ GetStatistics

Spec == Init /\ [][Next]_vars

(* ------------------------------ properties ---------------------------- *)
StatusUpdatedCount(a) ==
  Cardinality({i \in 1..Len(a) : a[i].eventType = "status_updated"})
StatusUpdatedFor(a, sid) ==
  Cardinality({i \in 1..Len(a) : a[i].eventType = "status_updated" /\ a[i].sessionId = sid})

\* the rows a step appended to the audit log
NewRows == {audit'[i] : i \in (Len(audit) + 1)..Len(audit')}

\* a step in which the webhook handler ran (every run leaves an audit row)
WebhookStep == last'.op = "webhook" /\ audit' # audit
\* ... on a delivery by the provider
DeliveryStep == WebhookStep /\ inTransit' # inTransit
\* a step in which the deletion handler ran
DeleteStep == last'.op = "delete" /\ served' # served /\ inTransit' = inTransit

\* C1: a mapped event applied to an existing session and delivered again
\* right after (valid signature, no other request in between) leaves every
\* session row as the first delivery left it and adds no second
\* status_updated entry for the session.
C1_RedeliveryIdempotent ==
  [][(/\ last.op = "webhook"
      /\ last.applied
      /\ last.sigOk
      /\ DeliveryStep
      /\ last'.evt = last.evt
      /\ last'.etype = last.etype
      /\ last'.sid = last.sid)
     => (/\ sessions' = sessions
         /\ StatusUpdatedFor(audit', last.sid) = StatusUpdatedFor(audit, last.sid))]_vars

\* what "rejected and never handed to the dispatcher" means for a step
RejectedUndispatched ==
  /\ last'.code = 400
  /\ sessions' = sessions
  /\ \A row \in NewRows : row.eventType \notin {"webhook_received", "status_updated"}

C3_RedeliveryShortCircuit ==
  [][(config.webhookSecret # NULL /\ DeliveryStep /\ applied[last'.evt] > 0)
     => (/\ last'.ack = "already_processed"
         /\ StatusUpdatedCount(audit') = StatusUpdatedCount(audit))]_vars

\* C4: with verified deliveries, no event id is the cause of more than one
\* status write in any sequence of requests.
C4_NoEventAppliedTwice ==
  config.webhookSecret # NULL => \A id \in EventIds : applied[id] <= 1

\* C5: of two deliveries of one event that were in the server at the same
\* time, the one handled second applies no transition and logs no
\* status_updated entry.
C5_ConcurrentDuplicates ==
  [][(/\ last.op = "webhook"
      /\ last.applied
      /\ last.overlap
      /\ DeliveryStep
      /\ last'.evt = last.evt)
     => (/\ ~last'.applied
         /\ StatusUpdatedCount(audit') = StatusUpdatedCount(audit))]_vars

\* C6: with verified deliveries, a status request that returns after a
\* webhook wrote a status newer than the one it fetched leaves that status
\* in place.
C6_NoStaleResync ==
  [][\A r \in Requests :
       (/\ config.webhookSecret # NULL
        /\ inflight[r].kind = "status"
        /\ inflight[r].pc = "answered"
        /\ inflight[r].newer # NULL
        /\ inflight'[r].kind = "idle"
        /\ HasSession(DB, inflight[r].sid)
        /\ sessions[inflight[r].sid].status = inflight[r].newer)
       => sessions'[inflight[r].sid].status = inflight[r].newer]_vars

\* the audit rows of a table that reference one of the sessions
RowsOf(a, sids) == {i \in 1..Len(a) : a[i].sessionId \in sids}

\* C7: a deletion step leaves the user's rows in both tables or in neither,
\* and one whose transaction throws (before or between the two deletes)
\* leaves both tables as they were.
C7_AtomicDeletion ==
  [][DeleteStep
     => (/\ \/ /\ last'.owned \subseteq DOMAIN sessions'
               /\ Cardinality(RowsOf(audit', last'.owned))
                    = Cardinality(RowsOf(audit, last'.owned))
            \/ /\ last'.owned \cap DOMAIN sessions' = {}
               /\ RowsOf(audit', last'.owned) = {}
         /\ last'.fault # 0 => (sessions' = sessions /\ audit' = audit))]_vars

\* a deletion failed between its two deletes for a user who has a session
\* with audit rows, and both are still there
C7_Witness ==
  /\ last.op = "delete"
  /\ last.fault = 2
  /\ last.owned # {}
  /\ last.owned \subseteq DOMAIN sessions
  /\ \A sid \in last.owned : RowsOf(audit, {sid}) # {}

\* C8: when a deletion has completed, no session of the user remains and
\* no audit row of a session the user owned when it started.
C8_DeletionPostcondition ==
  (last.op = "delete" /\ last.code = 200)
    => (/\ OwnedBy(sessions, last.user) = {}
        /\ RowsOf(audit, last.owned) = {})

\* a deletion completed for a user who owned a session
C8_Witness ==
  /\ last.op = "delete"
  /\ last.code = 200
  /\ last.owned # {}

\* C9: a well-formed request that passed the verification (or met none) is
\* acknowledged with received: true; it creates no session row, and changes
\* none when its object id has no row.
C9_AcknowledgeAfterVerification ==
  [][(/\ WebhookStep
      /\ last'.shape = "event"
      /\ (last'.sigOk \/ config.webhookSecret = NULL))
     => (/\ last'.code = 200
         /\ last'.ack \in {"received", "already_processed"}
         /\ DOMAIN sessions' = DOMAIN sessions
         /\ ~HasSession(DB, last'.sid) => sessions' = sessions)]_vars

\* a signed mapped event for a session that has no local row was acknowledged
C9_Witness ==
  /\ last.op = "webhook"
  /\ last.sigOk
  /\ last.etype \in MappedTypes
  /\ ~HasSession(DB, last.sid)
  /\ last.code = 200
  /\ last.ack = "received"

\* C10: a request that fails the signature verification or the parsing is
\* answered 400, appends one webhook_error row without a session id and
\* nothing else, and changes no session row.
C10_RejectedDelivery ==
  [][(/\ WebhookStep
      /\ \/ config.webhookSecret # NULL /\ ~last'.sigOk
         \/ last'.shape # "event")
     => (/\ last'.code = 400
         /\ sessions' = sessions
         /\ Len(audit') = Len(audit) + 1
         /\ SubSeq(audit', 1, Len(audit)) = audit
         /\ audit'[Len(audit')].eventType = "webhook_error"
         /\ audit'[Len(audit')].sessionId = NULL)]_vars

\* a body without data.object was refused by a server that has sessions
C10_Witness ==
  /\ last.op = "webhook"
  /\ last.shape = "no_object"
  /\ last.code = 400
  /\ DOMAIN sessions # {}
  /\ audit[Len(audit)].eventType = "webhook_error"

\* a webhook step whose request passed the verification (or met none)
VerifiedStep ==
  /\ last'.op = "webhook"
  /\ \/ \E i \in DOMAIN inTransit : inTransit'[i] < inTransit[i]
     \/ served' # served /\ inTransit' = inTransit
  /\ last'.shape = "event"
  /\ last'.sigOk \/ config.webhookSecret = NULL

\* the positions of the rows a step appended to the audit log
NewPositions == (Len(audit) + 1)..Len(audit')

\* C11: every delivery that passed the verification appends exactly one
\* webhook_received row, keyed by the event's object id and carrying the
\* event's type and id, and that row comes before every other row of the
\* delivery (a status_updated row included); so it is for an event id
\* already recorded, an unmapped type and an object id without a row.
C11_ReceiptLoggedFirst ==
  [][VerifiedStep
     => (/\ Len(audit') > Len(audit)
         /\ SubSeq(audit', 1, Len(audit)) = audit
         /\ audit'[Len(audit) + 1]
              = AuditRow("webhook_received", last'.sid, last'.etype, last'.evt, NULL)
         /\ \A i \in NewPositions :
              audit'[i].eventType = "webhook_received" => i = Len(audit) + 1)]_vars

\* a delivery answered already_processed left its receipt as the last row
C11_Witness ==
  /\ last.op = "webhook"
  /\ last.ack = "already_processed"
  /\ audit # << >>
  /\ audit[Len(audit)] = AuditRow("webhook_received", last.sid, last.etype, last.evt, NULL)

\* C12: when the dispatcher has applied a mapped event to an existing
\* session (deliveries verified with the secret), the session's lastEventId
\* is the event's id and the status_updated row of the delivery carries the
\* new status and that event id.
C12_EventIdRecorded ==
  [][(VerifiedStep /\ config.webhookSecret # NULL /\ last'.applied)
     => (/\ sessions'[last'.sid].lastEventId = last'.evt
         /\ \E i \in NewPositions :
              audit'[i] = AuditRow("status_updated", last'.sid,
                                   StatusOfType(last'.etype), last'.evt, NULL))]_vars

\* C13: a delivery that passed the verification and whose type is not one of
\* the four mapped types is acknowledged, changes no session row, and
\* appends its webhook_received row and nothing else (no status_updated).
C13_UnmappedTypeIgnored ==
  [][(VerifiedStep /\ last'.etype \notin MappedTypes)
     => (/\ last'.code = 200
         /\ last'.ack = "received"
         /\ sessions' = sessions
         /\ audit' = Append(audit, AuditRow("webhook_received", last'.sid,
                                            last'.etype, last'.evt, NULL)))]_vars

\* a signed event of an unmapped type for a session that has a row was
\* acknowledged
C13_Witness ==
  /\ last.op = "webhook"
  /\ last.sigOk
  /\ last.etype = EvOther
  /\ HasSession(DB, last.sid)
  /\ last.code = 200
  /\ audit[Len(audit)].eventType = "webhook_received"

\* C14: a session whose verifiedAt is set keeps it set in every step that
\* keeps the row, whatever webhook transition or resync the step is.
C14_VerifiedAtNeverCleared ==
  [][\A sid \in DOMAIN sessions \cap DOMAIN sessions' :
       sessions[sid].verifiedAt # NoTime => sessions'[sid].verifiedAt # NoTime]_vars

\* a session that was verified has since moved to another status and still
\* has its verification time
C14_Witness ==
  \E sid \in DOMAIN sessions :
    /\ sessions[sid].verifiedAt # NoTime
    /\ sessions[sid].status # "verified"

\* the step wrote the status verified to the row of sid: the update ran on an
\* existing row and left its status_updated row
SetVerified(sid) ==
  /\ sid \in DOMAIN sessions
  /\ \E i \in NewPositions :
       /\ audit'[i].eventType = "status_updated"
       /\ audit'[i].sessionId = sid
       /\ audit'[i].info = "verified"

\* C15: a session has verifiedAt set exactly when its status has been set to
\* verified at least once since its creation, by a webhook or a resync.
\* Step by step: a new row has no verifiedAt and is not verified, and a kept
\* row has verifiedAt after the step exactly when it had it before or the
\* step set the status to verified.
C15_VerifiedAtIffEverVerified ==
  [][\A sid \in DOMAIN sessions' :
       IF sid \notin DOMAIN sessions
       THEN sessions'[sid].verifiedAt = NoTime /\ sessions'[sid].status # "verified"
       ELSE sessions'[sid].verifiedAt # NoTime
              <=> (sessions[sid].verifiedAt # NoTime \/ SetVerified(sid))]_vars

\* a resync set a session to verified and the row has its verification time
C15_Witness ==
  /\ last.op = "status"
  /\ last.applied
  /\ last.status = "verified"
  /\ HasSession(DB, last.sid)
  /\ sessions[last.sid].status = "verified"
  /\ sessions[last.sid].verifiedAt # NoTime

\* C16: when the dispatcher applies a mapped event (one the idempotency
\* check let through) to an existing session, the session's status after the
\* step is the status the event's type stands for, whatever it was before.
C16_LastWriteWins ==
  [][(VerifiedStep /\ last'.applied)
     => sessions'[last'.sid].status = StatusOfType(last'.etype)]_vars

\* a canceled event was applied to a session that had been verified
C16_Witness ==
  /\ last.op = "webhook"
  /\ last.applied
  /\ last.etype = EvCanceled
  /\ HasSession(DB, last.sid)
  /\ sessions[last.sid].status = "canceled"
  /\ sessions[last.sid].verifiedAt # NoTime

\* C17: every step other than a deletion (session creation, webhook
\* delivery, status query, statistics, and the environment's steps) keeps
\* every audit row in place and unchanged; rows are only added at the end.
C17_AuditAppendOnly ==
  [][~DeleteStep
     => (/\ Len(audit') >= Len(audit)
         /\ SubSeq(audit', 1, Len(audit)) = audit)]_vars

\* a resync appended its row to a log that had rows of other operations
C17_Witness ==
  /\ last.op = "status"
  /\ last.applied
  /\ Len(audit) >= 3
  /\ audit[1].eventType = "session_created"
  /\ audit[Len(audit)].eventType = "status_updated"

\* a status request returns with the provider's answer and the row is the
\* one it read before the await (nothing else has touched it)
UndisturbedReturn(r) ==
  /\ inflight[r].kind = "status"
  /\ inflight[r].pc = "answered"
  /\ inflight[r].fetched # "error"
  /\ inflight'[r].kind = "idle"
  /\ HasSession(DB, inflight[r].sid)
  /\ getVerificationBySessionId(DB, inflight[r].sid) = inflight[r].record

\* C18: a status query that no other operation disturbed and that found the
\* provider's status different from the stored one leaves the stored status
\* equal to the provider's and lastEventId equal to "manual_sync", and
\* appends one status_updated row tagged manual_sync; it does so whether or
\* not "manual_sync" is already recorded as an event id.
C18_ResyncOnStatusQuery ==
  [][\A r \in Requests :
       (UndisturbedReturn(r) /\ inflight[r].fetched # sessions[inflight[r].sid].status)
       => (/\ sessions'[inflight[r].sid].status = inflight[r].fetched
           /\ sessions'[inflight[r].sid].lastEventId = "manual_sync"
           /\ audit' = Append(audit, AuditRow("status_updated", inflight[r].sid,
                                              inflight[r].fetched, "manual_sync", NULL)))]_vars

\* a second resync of a session: "manual_sync" was recorded already and the
\* status was written again
C18_Witness ==
  /\ last.op = "status"
  /\ last.applied
  /\ HasSession(DB, last.sid)
  /\ sessions[last.sid].status = last.status
  /\ sessions[last.sid].lastEventId = "manual_sync"
  /\ \E i \in 1..(Len(audit) - 1) :
       /\ audit[i].eventType = "status_updated"
       /\ audit[i].sessionId = last.sid
       /\ audit[i].eventId = "manual_sync"
  /\ audit[Len(audit)]
       = AuditRow("status_updated", last.sid, last.status, "manual_sync", NULL)

\* C19: a session creation that the provider answered stores a row under the
\* provider's session id with the request's userReference, status created,
\* no verifiedAt and no lastEventId, appends a session_created row for that
\* session id, and answers with the url and the session id.
C19_CreateSessionSuccess ==
  [][\A r \in Requests :
       (/\ inflight[r].kind = "create"
        /\ inflight[r].result # NULL
        /\ inflight'[r].kind = "idle")
       => (/\ DOMAIN sessions' = DOMAIN sessions \cup {inflight[r].result}
           /\ sessions'[inflight[r].result].user = inflight[r].user
           /\ sessions'[inflight[r].result].status = "created"
           /\ sessions'[inflight[r].result].verifiedAt = NoTime
           /\ sessions'[inflight[r].result].lastEventId = NULL
           /\ \E i \in NewPositions :
                /\ audit'[i].eventType = "session_created"
                /\ audit'[i].sessionId = inflight[r].result
           /\ last'.code = 200
           /\ last'.ack = "url"
           /\ last'.sid = inflight[r].result)]_vars

\* a creation with a userReference in its body succeeded and its row is there
C19_Witness ==
  /\ last.op = "create"
  /\ last.code = 200
  /\ last.user \in Users
  /\ HasSession(DB, last.sid)
  /\ sessions[last.sid].user = last.user
  /\ sessions[last.sid].status = "created"

\* C20: a session creation whose provider call failed leaves the session
\* rows as they were, appends one session_creation_failed row and nothing
\* else, answers 500, and makes no further provider call (the handler is
\* done, no session appears at the provider).
C20_CreateSessionProviderFailure ==
  [][\A r \in Requests :
       (/\ inflight[r].kind = "create"
        /\ inflight[r].result = NULL
        /\ inflight'[r] # inflight[r])
       => (/\ sessions' = sessions
           /\ audit' = Append(audit, AuditRow("session_creation_failed", NULL,
                                              "error", NULL, NULL))
           /\ last'.op = "create"
           /\ last'.code = 500
           /\ inflight'[r] = Idle
           /\ provStatus' = provStatus)]_vars

\* a creation failed at the provider on a server that has a session, and its
\* failure row is the last of the log
C20_Witness ==
  /\ last.op = "create"
  /\ last.code = 500
  /\ config.frontendUrl
  /\ DOMAIN sessions # {}
  /\ audit[Len(audit)].eventType = "session_creation_failed"

\* the rows of an audit table that no deletion of these sessions removes:
\* those without a session id and those of other sessions, in order
KeptRows(a, owned) == SelectSeq(a, LAMBDA row : row.sessionId \notin owned)

\* C21: a deletion for user u leaves every session row of another user as it
\* was and every audit row whose session id is null or belongs to no session
\* of u in place and in order; when u owns no session (and no statement
\* fails) the call succeeds and no row of either table is removed.
C21_DeletionFrame ==
  [][DeleteStep
     => (/\ \A sid \in DOMAIN sessions \ last'.owned :
              sid \in DOMAIN sessions' /\ sessions'[sid] = sessions[sid]
         /\ last'.owned = OwnedBy(sessions, last'.user)
         /\ Len(KeptRows(audit', last'.owned)) >= Len(KeptRows(audit, last'.owned))
         /\ SubSeq(KeptRows(audit', last'.owned), 1, Len(KeptRows(audit, last'.owned)))
              = KeptRows(audit, last'.owned)
         /\ (last'.owned = {} /\ last'.fault = 0)
              => (/\ last'.code = 200
                  /\ sessions' = sessions
                  /\ SubSeq(audit', 1, Len(audit)) = audit))]_vars

\* a deletion completed for a user who owned a session, and another user's
\* session and its creation row are still there
C21_Witness ==
  /\ last.op = "delete"
  /\ last.code = 200
  /\ last.owned # {}
  /\ \E sid \in DOMAIN sessions :
       /\ sessions[sid].user # last.user
       /\ \E i \in 1..Len(audit) :
            audit[i].eventType = "session_created" /\ audit[i].sessionId = sid

\* C22: every completed deletion for user u appends, after its two deletes, a
\* user_data_deleted row for u without a session id, and that row is in the
\* log when the handler answers (followed only by the handler's own
\* gdpr_deletion row).
C22_DeletionLeavesTrace ==
  [][(DeleteStep /\ last'.code = 200)
     => (/\ Len(audit') = Len(KeptRows(audit, last'.owned)) + 2
         /\ audit'[Len(audit') - 1]
              = AuditRow("user_data_deleted", NULL, NULL, NULL, last'.user)
         /\ audit'[Len(audit')].eventType = "gdpr_deletion")]_vars

\* a deletion that removed a user's session and audit rows has left its
\* user_data_deleted row
C22_Witness ==
  /\ last.op = "delete"
  /\ last.code = 200
  /\ last.owned # {}
  /\ Len(audit) >= 2
  /\ audit[Len(audit) - 1].eventType = "user_data_deleted"
  /\ audit[Len(audit) - 1].sessionId = NULL

\* a step in which the statistics handler ran
StatsStep == last'.op = "stats" /\ served' # served /\ inTransit' = inTransit

\* the sessions of a table whose status is one of the given ones
Bucket(s, statuses) == Cardinality({sid \in DOMAIN s : s[sid].status \in statuses})

\* C23: a statistics request changes no session row and no audit row, and
\* its counts are those of the store: verified, pending (created or
\* processing) and failed (requires_input or canceled) add up to
\* total_sessions, the number of session rows, and audit_events is the
\* number of audit rows.
C23_StatisticsPartition ==
  [][StatsStep
     => (/\ sessions' = sessions
         /\ audit' = audit
         /\ last'.code = 200
         /\ last'.stats.total_sessions = Cardinality(DOMAIN sessions)
         /\ last'.stats.verified = Bucket(sessions, {"verified"})
         /\ last'.stats.pending = Bucket(sessions, {"created", "processing"})
         /\ last'.stats.failed = Bucket(sessions, {"requires_input", "canceled"})
         /\ last'.stats.verified + last'.stats.pending + last'.stats.failed
              = last'.stats.total_sessions
         /\ last'.stats.audit_events = Len(audit))]_vars

\* statistics were asked of a store whose one session a resync had moved to
\* requires_input
C23_Witness ==
  /\ last.op = "stats"
  /\ last.stats.total_sessions = 1
  /\ last.stats.pending = 0
  /\ last.stats.failed = 1
  /\ last.stats.audit_events = Len(audit)
  /\ last.stats.audit_events >= 3

\* a step in which a status request arrived for a session id without a row
UnknownStatusRequest ==
  /\ last'.op \in {"status", "status_call"}
  /\ served' # served
  /\ inTransit' = inTransit
  /\ last'.sid \notin DOMAIN sessions

\* C24: a status request for a session id that has no local row is answered
\* 404 without a request to the provider (the handler is done in this step),
\* and changes no session row and no audit row.
C24_StatusOfUnknownSession ==
  [][UnknownStatusRequest
     => (/\ last'.op = "status"
         /\ last'.code = 404
         /\ inflight' = inflight
         /\ sessions' = sessions
         /\ audit' = audit)]_vars

\* a status request for an unknown id was answered 404 by a server that has
\* another session
C24_Witness ==
  /\ last.op = "status"
  /\ last.code = 404
  /\ last.sid \notin DOMAIN sessions
  /\ DOMAIN sessions # {}

\* C25: when a status request that no other operation disturbed returns, the
\* status and verified_at of its response are the status and verifiedAt the
\* row has after the call; so a response with status verified carries a
\* verified_at.
C25_StatusResponseMatchesStore ==
  [][\A r \in Requests :
       UndisturbedReturn(r)
       => (/\ last'.status = sessions'[inflight[r].sid].status
           /\ last'.verifiedAt = sessions'[inflight[r].sid].verifiedAt
           /\ last'.status = "verified" => last'.verifiedAt # NoTime)]_vars

\* C26: with deliveries verified by the secret, a status_updated row for a
\* session id is appended only in a step that wrote the status of a stored
\* row with that id; an update that matches no row appends none.
C26_AuditReflectsRealUpdates ==
  [][config.webhookSecret # NULL
     => \A i \in NewPositions :
          audit'[i].eventType = "status_updated"
          => audit'[i].sessionId \in DOMAIN sessions]_vars

\* C27: the audit log never holds two session_created rows for one session.
C27_OneCreationOneEntry ==
  \A sid \in SessionIds :
    Cardinality({i \in 1..Len(audit) :
                   audit[i].eventType = "session_created" /\ audit[i].sessionId = sid}) <= 1

====
